---- MODULE Spec2Model ----
(***************************************************************************)
(* A model of js-launchpad's Launchpad class (src/src/Launchpad.js): the   *)
(* in-memory LED buffers and buffer-control fields, the outbound commands  *)
(* with their await points, the inbound MIDI message handler and the       *)
(* listener registry.                                                      *)
(*                                                                         *)
(* An async command is a task.  A task runs from its call to its first     *)
(* `await` in one step (the *_call action), and from one await to the next *)
(* in one step (the *_resume actions).  `this.output.send` runs inside     *)
(* _midiSend before the await suspends the caller, so a wire message is    *)
(* sent in the step that reaches the await; a send that throws rejects the *)
(* awaited promise and ends the command with an error.                     *)
(***************************************************************************)
EXTENDS Integers, Sequences, FiniteSets, TLC

(***************************************************************************)
(* Bounds of the model                                                     *)
(***************************************************************************)
\* longest batch of colors of Spec
MaxBatch == 4
\* commands one run of Spec issues
MaxCmds == 3
\* led_changed listeners registered in one run of Spec
MaxLedListeners == 1
\* commands one run of SpecArgs issues
MaxArgCmds == 2
\* listener registrations made in one run of SpecEvents
MaxRegs == 2
\* commands issued in SpecEncode
MaxEncodeCmds == 2
\* commands issued in SpecDuty
MaxDutyCmds == 2
\* commands issued in SpecOrder
MaxOrderCmds == 2
\* commands issued in SpecFrame
MaxFrameCmds == 2
\* commands issued in SpecWork
MaxWorkCmds == 3
\* commands issued in SpecMirror
MaxMirrorCmds == 3
\* commands issued in SpecOverlap
MaxOverlapCmds == 3

(***************************************************************************)
(* Launchpad.Buttons (Launchpad.js 470-491)                                *)
(***************************************************************************)
Digit == <<"0", "1", "2", "3", "4", "5", "6", "7">>

\* `${x}${y}`
GridName(x, y) == Digit[x + 1] \o Digit[y + 1]

GridNames == {GridName(x, y) : x \in 0..7, y \in 0..7}

SideNames == <<"Vol", "Pan", "SendA", "SendB", "Stop", "TrackOn", "Solo", "Arm">>

TopNames == <<"Up", "Down", "Left", "Right", "Session", "User1", "User2", "Mixer">>

Range(s) == {s[i] : i \in DOMAIN s}

ButtonNames == GridNames \cup Range(SideNames) \cup Range(TopNames)

\* A button carries exactly one of _note_key / _automap_key: `keyspace`
\* says which of the two is defined, `key` is its value.
GridButtons ==
  [n \in GridNames |->
     LET x == CHOOSE x \in 0..7 : \E y \in 0..7 : GridName(x, y) = n
         y == CHOOSE y \in 0..7 : GridName(x, y) = n
     IN [name |-> n, keyspace |-> "note", key |-> x + y * 16]]

SideButtons ==
  [n \in Range(SideNames) |->
     LET i == CHOOSE i \in 1..8 : SideNames[i] = n
     IN [name |-> n, keyspace |-> "note", key |-> 8 + (i - 1) * 16]]

TopButtons ==
  [n \in Range(TopNames) |->
     LET i == CHOOSE i \in 1..8 : TopNames[i] = n
     IN [name |-> n, keyspace |-> "automap", key |-> 104 + (i - 1)]]

Buttons ==
  [n \in ButtonNames |->
     IF n \in GridNames THEN GridButtons[n]
     ELSE IF n \in Range(SideNames) THEN SideButtons[n]
     ELSE TopButtons[n]]

\* Arguments that are not buttons: null, and an object with neither key.
NullButton == "null"

UnknownButton == "{}"

\* !button || typeof button !== 'object' ||
\*   (button._note_key === undefined && button._automap_key === undefined)
IsInvalidButton(button) == button \notin ButtonNames

(***************************************************************************)
(* Launchpad.Colors (Launchpad.js 423-439)                                 *)
(***************************************************************************)
Colors ==
  [Off       |-> [name |-> "Off",       r |-> 0, g |-> 0],
   GreenLow  |-> [name |-> "GreenLow",  r |-> 0, g |-> 1],
   GreenMed  |-> [name |-> "GreenMed",  r |-> 0, g |-> 2],
   Green     |-> [name |-> "Green",     r |-> 0, g |-> 3],
   RedLow    |-> [name |-> "RedLow",    r |-> 1, g |-> 0],
   RedMed    |-> [name |-> "RedMed",    r |-> 2, g |-> 0],
   Red       |-> [name |-> "Red",       r |-> 3, g |-> 0],
   OrangeMed |-> [name |-> "OrangeMed", r |-> 2, g |-> 1],
   Orange    |-> [name |-> "Orange",    r |-> 3, g |-> 2],
   YellowMed |-> [name |-> "YellowMed", r |-> 1, g |-> 2],
   Yellow    |-> [name |-> "Yellow",    r |-> 2, g |-> 3],
   AmberLow  |-> [name |-> "AmberLow",  r |-> 1, g |-> 1],
   AmberMed  |-> [name |-> "AmberMed",  r |-> 2, g |-> 2],
   Amber     |-> [name |-> "Amber",     r |-> 3, g |-> 3],
   Lime      |-> [name |-> "Lime",      r |-> 1, g |-> 3],
   OrangeRed |-> [name |-> "OrangeRed", r |-> 3, g |-> 1]]

ColorNames == DOMAIN Colors

\* Arguments that are not colors: null, and an object with neither r nor g.
NullColor == "null"

NotAColor == "{}"

\* !color || typeof color !== 'object' ||
\*   (color.r === undefined && color.g === undefined)
IsInvalidColor(color) == color \notin ColorNames

\* colorToMIDIVelocity gone wrong: changeInBothBuffers makes the other flag
\* count for nothing
colorToMIDIVelocityExclusive(color, changeInBothBuffers, turnOffInOtherBuffer) ==
  (IF changeInBothBuffers THEN 12 ELSE IF turnOffInOtherBuffer THEN 8 ELSE 0)
  + Colors[color].r + Colors[color].g * 16

\* _colorToMIDIVelocity, for a color that passed the check above
colorToMIDIVelocity(color, changeInBothBuffers, turnOffInOtherBuffer) ==
  (IF turnOffInOtherBuffer THEN 8 ELSE 0)
  + (IF changeInBothBuffers THEN 12 ELSE 0)
  + Colors[color].r + Colors[color].g * 16

(***************************************************************************)
(* getOrderedButtons (Launchpad.js 187-215), as button names               *)
(***************************************************************************)
\* for y in 0..7, for x in 0..7: push `${x}${y}`
GridRowMajor == [k \in 1..64 |-> GridName((k - 1) % 8, (k - 1) \div 8)]

OrderForBatch == GridRowMajor \o SideNames \o TopNames

\* OrderPhysical gone wrong: the side button of a row comes before the row
OrderPhysicalSideFirst ==
  TopNames \o
  [k \in 1..72 |->
     LET y == (k - 1) \div 9
         x == (k - 1) % 9
     IN IF x = 0 THEN SideNames[y + 1] ELSE GridName(x - 1, y)]

\* push the top row, then for each y the eight `${x}${y}` and sideBar[y]
OrderPhysical ==
  TopNames \o
  [k \in 1..72 |->
     LET y == (k - 1) \div 9
         x == (k - 1) % 9
     IN IF x = 8 THEN SideNames[y + 1] ELSE GridName(x, y)]

\* the list the body of `if (!this._cachedOrderedButtons[order])` computes;
\* none for an order that is neither
getOrderedButtons(order) ==
  IF order = "physical" THEN OrderPhysical
  ELSE IF order = "forBatch" THEN OrderForBatch
  ELSE <<>>

\* this._cachedOrderedButtons after getOrderedButtons(order): the list is
\* computed when the cache holds none for the order
Cached(cache, order) ==
  IF order \in DOMAIN cache /\ cache[order] = <<>>
    THEN [cache EXCEPT ![order] = getOrderedButtons(order)]
    ELSE cache

(***************************************************************************)
(* State                                                                   *)
(***************************************************************************)
VARIABLES
  ledBuffers,        \* this.ledBuffers: buffer index -> button name -> color
  displayingBuffer,  \* this.displayingBuffer
  updatingBuffer,    \* this.updatingBuffer
  flashingBuffers,   \* this.flashingBuffers (0 / false as 0, true as 1)
  pressedButtons,    \* this._pressedButtons (button names)
  listeners,         \* this.listeners: category -> sequence of callbacks
  handles,           \* the unsubscribe closures handed out so far
  nregs,             \* callbacks registered so far (a callback is its number)
  tasks,             \* the async commands: position, arguments, what they did
  budget,            \* commands the run may still issue
  wire,              \* messages passed to output.send since the last idle point
  device,            \* the pad as the messages sent so far leave it: its
                     \* buffer-control values, its two LED buffers and the
                     \* position of its batch cursor
  delivered,         \* what the last inbound message or fake dispatch did
  lastPress,         \* buttons whose latest resolved inbound message was a press
  cachedOrderedButtons, \* this._cachedOrderedButtons: order -> list of buttons
  returned           \* the order asked of getOrderedButtons last, and its result

ledVars == <<ledBuffers, displayingBuffer, updatingBuffer, flashingBuffers>>

listenerVars == <<listeners, handles, nregs>>

eventVars == <<pressedButtons, delivered, lastPress>>

taskVars == <<tasks, budget, wire, device>>

orderVars == <<cachedOrderedButtons, returned>>

vars == <<ledVars, listenerVars, eventVars, taskVars, orderVars>>

\* a field the constructor leaves unset
undefined == -1

\* this.ledBuffers before the first reset
NoBuffers == <<>>

Tasks == {1, 2}

Categories == {"pressed", "released", "led_changed"}

Snapshot ==
  [leds |-> ledBuffers, display |-> displayingBuffer, update |-> updatingBuffer,
   flash |-> flashingBuffers, pressed |-> pressedButtons]

IdleTask ==
  [op |-> "none", args |-> <<>>, pc |-> "idle", status |-> "idle", error |-> "none",
   button |-> "none", color |-> "none", colors |-> <<>>, copy |-> FALSE,
   i |-> 0, sent |-> <<>>, dispatches |-> 0, notified |-> <<>>, awaited |-> TRUE,
   pre |-> [leds |-> NoBuffers, display |-> undefined, update |-> undefined,
            flash |-> undefined, pressed |-> {}]]

NoDelivery == [type |-> "none", button |-> "none", calls |-> <<>>]

\* the orders getOrderedButtons has a list for
Orders == {"physical", "forBatch"}

\* this._cachedOrderedButtons with no order computed yet (an order with no
\* list yet holds the empty list here)
NoCache == [order \in Orders |-> <<>>]

NoReturn == [order |-> "none", list |-> <<>>]

\* the state the constructor leaves
Constructed ==
  /\ ledBuffers = NoBuffers
  /\ displayingBuffer = undefined
  /\ updatingBuffer = undefined
  /\ flashingBuffers = undefined
  /\ pressedButtons = {}
  /\ listeners = [c \in Categories |-> <<>>]
  /\ handles = {}
  /\ nregs = 0
  /\ tasks = [t \in Tasks |-> IdleTask]
  /\ wire = <<>>
  /\ device = [display |-> undefined, update |-> undefined, flash |-> undefined,
               leds |-> NoBuffers, cursor |-> 0]
  /\ delivered = NoDelivery
  /\ lastPress = {}
  /\ cachedOrderedButtons = NoCache
  /\ returned = NoReturn

(***************************************************************************)
(* The wire                                                                *)
(***************************************************************************)
\* new Uint8Array(arguments): every argument modulo 256
Uint8Array(msg) == [k \in DOMAIN msg |-> msg[k] % 256]

\* The pad's side of the protocol, as the comments of the commands give it.

\* the color a velocity byte carries: red in bits 0-1, green in bits 4-5
DeviceColor(velocity) ==
  CHOOSE c \in ColorNames :
    Colors[c].r = velocity % 4 /\ Colors[c].g = (velocity \div 16) % 4

\* the LED a single-LED message addresses: a note key under 0x90, an automap
\* key under 0xB0
DeviceButtons(status, key) ==
  {b \in ButtonNames :
     /\ Buttons[b].keyspace = (IF status = 144 THEN "note" ELSE "automap")
     /\ Buttons[b].key = key}

\* one LED set by a velocity: the updating buffer takes the color; bit 2
\* (12 = copy + clear) writes the other buffer as well, bit 3 alone (8)
\* clears the other buffer's copy of the LED
DeviceSetLed(leds, update, name, velocity) ==
  [b \in {0, 1} |->
     [leds[b] EXCEPT ![name] =
        IF b = update \/ (velocity \div 4) % 2 = 1 THEN DeviceColor(velocity)
        ELSE IF (velocity \div 8) % 2 = 1 THEN "Off"
        ELSE @]]

\* What a message sets on the pad: reset, all LEDs on, buffer control
\* (display, update, flash, and copy of the displayed buffer into the
\* updating one), a single LED, or a pair of LEDs at the batch cursor, which
\* any other message sends back to the first LED of the batch order.
DeviceApply(dev, msg) ==
  IF msg[1] = 176 /\ msg[2] = 0 /\ msg[3] = 0
    THEN [display |-> 0, update |-> 0, flash |-> 0,
          leds |-> [b \in {0, 1} |-> [n \in ButtonNames |-> "Off"]], cursor |-> 0]
  ELSE IF msg[1] = 176 /\ msg[2] = 0 /\ msg[3] \in 32..63
    THEN LET display == msg[3] % 2
             update == (msg[3] \div 4) % 2
         IN [display |-> display, update |-> update, flash |-> (msg[3] \div 8) % 2,
             leds |-> IF (msg[3] \div 16) % 2 = 1
                        THEN [dev.leds EXCEPT ![update] = dev.leds[display]]
                        ELSE dev.leds,
             cursor |-> 0]
  ELSE IF msg[1] = 176 /\ msg[2] = 0 /\ msg[3] \in 125..127
    THEN [dev EXCEPT !.leds = [b \in {0, 1} |-> [n \in ButtonNames |->
                                 IF msg[3] = 125 THEN "AmberLow"
                                 ELSE IF msg[3] = 126 THEN "AmberMed" ELSE "Amber"]],
                     !.cursor = 0]
  ELSE IF msg[1] = 146
    THEN [dev EXCEPT !.leds = DeviceSetLed(
                                DeviceSetLed(@, dev.update,
                                             OrderForBatch[dev.cursor + 1], msg[2]),
                                dev.update,
                                OrderForBatch[((dev.cursor + 1) % 80) + 1], msg[3]),
                     !.cursor = (dev.cursor + 2) % 80]
  ELSE IF msg[1] \in {144, 176} /\ DeviceButtons(msg[1], msg[2]) # {}
    THEN [dev EXCEPT !.leds = DeviceSetLed(@, dev.update,
                                           CHOOSE b \in DeviceButtons(msg[1], msg[2]) : TRUE,
                                           msg[3]),
                     !.cursor = 0]
  ELSE [dev EXCEPT !.cursor = 0]

Running(t) == tasks[t].status = "running"

Quiescent == \A t \in Tasks : ~Running(t)

\* WireAtCall gone wrong: the log is never restarted, so that it runs on
\* from the messages of the commands before
WireAtCallKept(t) == wire

\* the wire log restarts when a command is called with no other in flight
WireAtCall(t) == IF \A u \in Tasks \ {t} : ~Running(u) THEN <<>> ELSE wire

\* a caller issues a command when its previous one has settled
CanCall(t) == ~Running(t) /\ budget > 0

\* commands other than reset are issued once a reset has set up the buffers
\* (accessDevice calls reset before it hands the pad to the caller)
Ready == ledBuffers # NoBuffers

\* the record of a command just called: its name, its arguments as given,
\* the state it was called in, and whether every command called before it
\* had settled (the caller awaited them)
Called(op, args) ==
  [IdleTask EXCEPT !.op = op, !.args = args, !.pc = "start", !.status = "running",
                   !.pre = Snapshot, !.awaited = Quiescent]

Throw(task, err) == [task EXCEPT !.status = "error", !.error = err, !.pc = "done"]

Return(task) == [task EXCEPT !.status = "done", !.pc = "done"]

\* _dispatchListener('led_changed') made by a command
Dispatched(task) ==
  [task EXCEPT !.dispatches = @ + 1, !.notified = @ \o listeners["led_changed"]]

\* await this._midiSend(...): output.send runs before the caller suspends at
\* pc; a send that throws ends the command with the channel's error.
midiSend(t, task, w, msg, ok, pc) ==
  IF ok
    THEN /\ tasks' = [tasks EXCEPT ![t] =
                        [task EXCEPT !.pc = pc, !.sent = Append(@, Uint8Array(msg))]]
         /\ wire' = Append(w, [task |-> t, msg |-> Uint8Array(msg)])
         /\ device' = DeviceApply(device, Uint8Array(msg))
    ELSE /\ tasks' = [tasks EXCEPT ![t] = Throw(task, "ChannelFailure")]
         /\ wire' = w
         /\ device' = device

\* a command that throws before its first send
Rejected(t, op, args, err) ==
  /\ tasks' = [tasks EXCEPT ![t] = Throw(Called(op, args), err)]
  /\ wire' = WireAtCall(t)
  /\ device' = device

(***************************************************************************)
(* reset (Launchpad.js 32-45)                                              *)
(***************************************************************************)
reset_call(t, ok) ==
  /\ CanCall(t)
  /\ budget' = budget - 1
  /\ midiSend(t, Called("reset", <<>>), WireAtCall(t), <<176, 0, 0>>, ok, "reset")
  /\ UNCHANGED <<orderVars, ledVars, listenerVars, eventVars>>

\* ResetBuffers gone wrong: buffer 1 keeps what it held
ResetBuffersFirstOnly ==
  [b \in {0, 1} |->
     IF b = 0 \/ ledBuffers = NoBuffers THEN [n \in ButtonNames |-> "Off"]
     ELSE ledBuffers[1]]

\* this.ledBuffers after the forEach of reset
ResetBuffers == [b \in {0, 1} |-> [n \in ButtonNames |-> "Off"]]

reset_resume(t) ==
  /\ Running(t) /\ tasks[t].pc = "reset"
  /\ flashingBuffers' = 0
  /\ displayingBuffer' = 0
  /\ updatingBuffer' = 0
  /\ ledBuffers' = ResetBuffers
  /\ tasks' = [tasks EXCEPT ![t] = Return(Dispatched(@))]
  /\ UNCHANGED <<orderVars, listenerVars, eventVars, budget, wire, device>>

(***************************************************************************)
(* allLEDsOn (Launchpad.js 51-65)                                          *)
(***************************************************************************)
brightnessMap == [low |-> 125, medium |-> 126, high |-> 127]

\* brightnessMap is an object literal: a lookup also finds what it inherits
\* from Object.prototype, and finds a function or an object there
ObjectPrototype ==
  {"constructor", "toString", "toLocaleString", "valueOf", "hasOwnProperty",
   "isPrototypeOf", "propertyIsEnumerable", "__proto__"}

\* if (!brightnessMap[brightness]) brightness = 'medium'
EffectiveBrightness(brightness) ==
  IF brightness \in DOMAIN brightnessMap \cup ObjectPrototype
    THEN brightness ELSE "medium"

\* brightnessMap[brightness] as an argument of _midiSend: a function or an
\* object is NaN as a number
BrightnessByte(brightness) ==
  IF brightness \in DOMAIN brightnessMap THEN brightnessMap[brightness] ELSE 0

allLEDsOn_call(t, brightness, ok) ==
  /\ CanCall(t) /\ Ready
  /\ budget' = budget - 1
  /\ midiSend(t, [Called("allLEDsOn", <<brightness>>) EXCEPT !.color = EffectiveBrightness(brightness)],
              WireAtCall(t),
              <<176, 0, BrightnessByte(EffectiveBrightness(brightness))>>, ok, "allLEDsOn")
  /\ UNCHANGED <<orderVars, ledVars, listenerVars, eventVars>>

\* AllOnColor gone wrong: a key Launchpad.Colors does not have, so that the
\* entries written are undefined
AllOnColorMisspelled(brightness) ==
  IF brightness = "low" THEN "undefined"
  ELSE IF brightness = "medium" THEN "AmberMed" ELSE "Amber"

\* Launchpad.Colors[brightness === 'low' ? 'AmberLow' : ...]
AllOnColor(brightness) ==
  IF brightness = "low" THEN "AmberLow"
  ELSE IF brightness = "medium" THEN "AmberMed" ELSE "Amber"

allLEDsOn_resume(t) ==
  /\ Running(t) /\ tasks[t].pc = "allLEDsOn"
  /\ ledBuffers' = [b \in {0, 1} |-> [n \in ButtonNames |-> AllOnColor(tasks[t].color)]]
  /\ tasks' = [tasks EXCEPT ![t] = Return(Dispatched(@))]
  /\ UNCHANGED <<orderVars, displayingBuffer, updatingBuffer, flashingBuffers,
                 listenerVars, eventVars, budget, wire, device>>

(***************************************************************************)
(* setSingleLED (Launchpad.js 74-82)                                       *)
(***************************************************************************)
\* [status, ledID, velocity] of the single-LED message
SingleLedMessage(button, color, changeInBothBuffers, turnOffInOtherBuffer) ==
  <<IF Buttons[button].keyspace = "note" THEN 144 ELSE 176,
    Buttons[button].key,
    colorToMIDIVelocity(color, changeInBothBuffers, turnOffInOtherBuffer)>>

setSingleLED_call(t, button, color, changeInBothBuffers, turnOffInOtherBuffer, ok) ==
  /\ CanCall(t) /\ Ready
  /\ budget' = budget - 1
  /\ IF IsInvalidButton(button)
       THEN Rejected(t, "setSingleLED",
                     <<button, color, changeInBothBuffers, turnOffInOtherBuffer>>,
                     "Invalid button")
     ELSE IF IsInvalidColor(color)
       THEN Rejected(t, "setSingleLED",
                     <<button, color, changeInBothBuffers, turnOffInOtherBuffer>>,
                     "Invalid color")
     ELSE midiSend(t, [Called("setSingleLED",
                              <<button, color, changeInBothBuffers, turnOffInOtherBuffer>>)
                         EXCEPT !.button = button, !.color = color],
                   WireAtCall(t),
                   SingleLedMessage(button, color, changeInBothBuffers, turnOffInOtherBuffer),
                   ok, "setSingleLED")
  /\ UNCHANGED <<orderVars, ledVars, listenerVars, eventVars>>

\* WriteLed gone wrong: the color is written to both buffers
WriteLedBoth(leds, buffer, name, color) ==
  [b \in {0, 1} |-> [leds[b] EXCEPT ![name] = color]]

\* this.ledBuffers[buffer][name] = color
WriteLed(leds, buffer, name, color) == [leds EXCEPT ![buffer][name] = color]

setSingleLED_resume(t) ==
  /\ Running(t) /\ tasks[t].pc = "setSingleLED"
  /\ ledBuffers' = WriteLed(ledBuffers, updatingBuffer, tasks[t].button, tasks[t].color)
  /\ tasks' = [tasks EXCEPT ![t] = Return(Dispatched(@))]
  /\ UNCHANGED <<orderVars, displayingBuffer, updatingBuffer, flashingBuffers,
                 listenerVars, eventVars, budget, wire, device>>

(***************************************************************************)
(* switchDisplayingBuffer / switchUpdatingBuffer / switchFlash and         *)
(* _updateBufferStatus (Launchpad.js 87-109, 369-383)                      *)
(***************************************************************************)
\* if (!this.x) this.x = 0; this.x = this.x === 1 ? 0 : 1
Toggle(x) == IF (IF x \in {undefined, 0} THEN 0 ELSE x) = 1 THEN 0 ELSE 1

\* !this.flashingBuffers
Negate(x) == IF x = 1 THEN 0 ELSE 1

\* bufferStatusByte gone wrong: the weights of display and update exchanged
bufferStatusByteSwapped(display, update, flashing, copy) ==
  32 + display * 4 + update + (IF flashing = 1 THEN 1 ELSE 0) * 8
     + (IF copy THEN 1 ELSE 0) * 16

\* 32 + display + update * 4 + flash * 8 + copy * 16
bufferStatusByte(display, update, flashing, copy) ==
  32 + display + update * 4 + (IF flashing = 1 THEN 1 ELSE 0) * 8
     + (IF copy THEN 1 ELSE 0) * 16

switchDisplayingBuffer_call(t, ok) ==
  /\ CanCall(t) /\ Ready
  /\ budget' = budget - 1
  /\ displayingBuffer' = Toggle(displayingBuffer)
  /\ midiSend(t, Called("switchDisplayingBuffer", <<>>), WireAtCall(t),
              <<176, 0, bufferStatusByte(Toggle(displayingBuffer), updatingBuffer,
                                         flashingBuffers, FALSE)>>,
              ok, "updateBufferStatus")
  /\ UNCHANGED <<orderVars, ledBuffers, updatingBuffer, flashingBuffers, listenerVars, eventVars>>

switchUpdatingBuffer_call(t, copy, ok) ==
  /\ CanCall(t) /\ Ready
  /\ budget' = budget - 1
  /\ updatingBuffer' = Toggle(updatingBuffer)
  /\ midiSend(t, [Called("switchUpdatingBuffer", <<copy>>) EXCEPT !.copy = copy], WireAtCall(t),
              <<176, 0, bufferStatusByte(displayingBuffer, Toggle(updatingBuffer),
                                         flashingBuffers, copy)>>,
              ok, "updateBufferStatus")
  /\ UNCHANGED <<orderVars, ledBuffers, displayingBuffer, flashingBuffers, listenerVars, eventVars>>

switchFlash_call(t, ok) ==
  /\ CanCall(t) /\ Ready
  /\ budget' = budget - 1
  /\ flashingBuffers' = Negate(flashingBuffers)
  /\ midiSend(t, Called("switchFlash", <<>>), WireAtCall(t),
              <<176, 0, bufferStatusByte(displayingBuffer, updatingBuffer,
                                         Negate(flashingBuffers), FALSE)>>,
              ok, "updateBufferStatus")
  /\ UNCHANGED <<orderVars, ledBuffers, displayingBuffer, updatingBuffer, listenerVars, eventVars>>

\* if (copy) this._dispatchListener('led_changed')
AfterBufferStatus(task) == IF task.copy THEN Dispatched(task) ELSE task

updateBufferStatus_resume(t) ==
  /\ Running(t) /\ tasks[t].pc = "updateBufferStatus"
  /\ tasks' = [tasks EXCEPT ![t] = Return(AfterBufferStatus(@))]
  /\ UNCHANGED <<orderVars, ledVars, listenerVars, eventVars, budget, wire, device>>

(***************************************************************************)
(* workOnBackgroundBuffer (Launchpad.js 289-296); the work is a function   *)
(* that awaits one setSingleLED(button, color)                             *)
(***************************************************************************)
\* the message of _updateBufferStatus(copy) for the fields as given
BufferStatusMessage(display, update, flashing, copy) ==
  <<176, 0, bufferStatusByte(display, update, flashing, copy)>>

\* await this.switchUpdatingBuffer(true), up to its send
workOnBackgroundBuffer_call(t, button, color, ok) ==
  /\ CanCall(t) /\ Ready
  /\ budget' = budget - 1
  /\ updatingBuffer' = Toggle(updatingBuffer)
  /\ midiSend(t, [Called("workOnBackgroundBuffer", <<button, color>>)
                    EXCEPT !.button = button, !.color = color, !.copy = TRUE],
              WireAtCall(t),
              BufferStatusMessage(displayingBuffer, Toggle(updatingBuffer),
                                  flashingBuffers, TRUE),
              ok, "work: copy sent")
  /\ UNCHANGED <<orderVars, ledBuffers, displayingBuffer, flashingBuffers,
                 listenerVars, eventVars>>

\* the rest of switchUpdatingBuffer(true), then await this.switchUpdatingBuffer()
workOnBackgroundBuffer_update(t, ok) ==
  /\ Running(t) /\ tasks[t].pc = "work: copy sent"
  /\ updatingBuffer' = Toggle(updatingBuffer)
  /\ midiSend(t, [AfterBufferStatus(tasks[t]) EXCEPT !.copy = FALSE], wire,
              BufferStatusMessage(displayingBuffer, Toggle(updatingBuffer),
                                  flashingBuffers, FALSE),
              ok, "work: update sent")
  /\ UNCHANGED <<orderVars, ledBuffers, displayingBuffer, flashingBuffers,
                 listenerVars, eventVars, budget>>

\* await this.switchDisplayingBuffer()
workOnBackgroundBuffer_display(t, ok) ==
  /\ Running(t) /\ tasks[t].pc = "work: update sent"
  /\ displayingBuffer' = Toggle(displayingBuffer)
  /\ midiSend(t, tasks[t], wire,
              BufferStatusMessage(Toggle(displayingBuffer), updatingBuffer,
                                  flashingBuffers, FALSE),
              ok, "work: display sent")
  /\ UNCHANGED <<orderVars, ledBuffers, updatingBuffer, flashingBuffers,
                 listenerVars, eventVars, budget>>

\* await promise(): the work calls setSingleLED, which runs up to its send
workOnBackgroundBuffer_work(t, ok) ==
  /\ Running(t) /\ tasks[t].pc = "work: display sent"
  /\ midiSend(t, tasks[t], wire,
              SingleLedMessage(tasks[t].button, tasks[t].color, FALSE, FALSE),
              ok, "work: running")
  /\ UNCHANGED <<orderVars, ledVars, listenerVars, eventVars, budget>>

\* the rest of the work's setSingleLED, then await this.switchDisplayingBuffer()
workOnBackgroundBuffer_back(t, ok) ==
  /\ Running(t) /\ tasks[t].pc = "work: running"
  /\ ledBuffers' = WriteLed(ledBuffers, updatingBuffer, tasks[t].button, tasks[t].color)
  /\ displayingBuffer' = Toggle(displayingBuffer)
  /\ midiSend(t, Dispatched(tasks[t]), wire,
              BufferStatusMessage(Toggle(displayingBuffer), updatingBuffer,
                                  flashingBuffers, FALSE),
              ok, "work: back sent")
  /\ UNCHANGED <<orderVars, updatingBuffer, flashingBuffers, listenerVars,
                 eventVars, budget>>

workOnBackgroundBuffer_return(t) ==
  /\ Running(t) /\ tasks[t].pc = "work: back sent"
  /\ tasks' = [tasks EXCEPT ![t] = Return(@)]
  /\ UNCHANGED <<orderVars, ledVars, listenerVars, eventVars, budget, wire, device>>

(***************************************************************************)
(* setDutyCycle / setBrightness (Launchpad.js 120-144)                     *)
(***************************************************************************)
\* InvalidNumerator gone wrong: 0 passes
InvalidNumeratorFromZero(numerator) == numerator < 0 \/ numerator > 16

InvalidNumerator(numerator) == numerator < 1 \/ numerator > 16

InvalidDenominator(denominator) == denominator < 3 \/ denominator > 18

\* DutyCycleMessage gone wrong: numerators 9..16 are not moved to 0x1F
DutyCycleMessageOneBank(numerator, denominator) ==
  <<176, 30, 16 * (numerator - 1) + (denominator - 3)>>

DutyCycleMessage(numerator, denominator) ==
  IF numerator < 9
    THEN <<176, 30, 16 * (numerator - 1) + (denominator - 3)>>
    ELSE <<176, 31, 16 * (numerator - 9) + (denominator - 3)>>

\* the body of setDutyCycle, run by the command `op`
DutyCycle(t, op, args, numerator, denominator, ok) ==
  IF InvalidNumerator(numerator) THEN Rejected(t, op, args, "Invalid numerator")
  ELSE IF InvalidDenominator(denominator) THEN Rejected(t, op, args, "Invalid denominator")
  ELSE midiSend(t, Called(op, args), WireAtCall(t),
                DutyCycleMessage(numerator, denominator), ok, "setDutyCycle")

setDutyCycle_call(t, numerator, denominator, ok) ==
  /\ CanCall(t) /\ Ready
  /\ budget' = budget - 1
  /\ DutyCycle(t, "setDutyCycle", <<numerator, denominator>>, numerator, denominator, ok)
  /\ UNCHANGED <<orderVars, ledVars, listenerVars, eventVars>>

\* case 1..5 of the switch; anything else throws
InvalidBrightness(brightness) == brightness \notin {1, 2, 3, 4, 5}

setBrightness_call(t, brightness, ok) ==
  /\ CanCall(t) /\ Ready
  /\ budget' = budget - 1
  /\ IF InvalidBrightness(brightness)
       THEN Rejected(t, "setBrightness", <<brightness>>, "Invalid brightness")
       ELSE DutyCycle(t, "setBrightness", <<brightness>>, brightness, 5, ok)
  /\ UNCHANGED <<orderVars, ledVars, listenerVars, eventVars>>

setDutyCycle_resume(t) ==
  /\ Running(t) /\ tasks[t].pc = "setDutyCycle"
  /\ tasks' = [tasks EXCEPT ![t] = Return(@)]
  /\ UNCHANGED <<orderVars, ledVars, listenerVars, eventVars, budget, wire, device>>

(***************************************************************************)
(* setMultipleLED (Launchpad.js 155-172)                                   *)
(***************************************************************************)
\* [0x92, velocities[i], velocities[i + 1]], i counted from 0; a missing
\* velocities[i + 1] is undefined, which Uint8Array stores as 0
PairMessage(colors, i) ==
  <<146,
    colorToMIDIVelocity(colors[i + 1], FALSE, FALSE),
    IF i + 2 <= Len(colors) THEN colorToMIDIVelocity(colors[i + 2], FALSE, FALSE) ELSE 0>>

setMultipleLED_call(t, colors, ok) ==
  /\ CanCall(t) /\ Ready
  /\ budget' = budget - 1
  /\ IF Len(colors) = 0
       THEN Rejected(t, "setMultipleLED", <<colors>>,
                     "Invalid colors array: Can not be empty")
     ELSE IF Len(colors) > 80
       THEN Rejected(t, "setMultipleLED", <<colors>>,
                     "Invalid colors array: Can not have more than 80 elements")
     ELSE IF \E k \in DOMAIN colors : IsInvalidColor(colors[k])
       THEN Rejected(t, "setMultipleLED", <<colors>>, "Invalid color")
     ELSE midiSend(t, [Called("setMultipleLED", <<colors>>)
                         EXCEPT !.colors = colors, !.i = 0],
                   WireAtCall(t), PairMessage(colors, 0), ok, "batch")
  /\ cachedOrderedButtons' =
       IF Len(colors) = 0 \/ Len(colors) > 80 THEN cachedOrderedButtons
       ELSE Cached(cachedOrderedButtons, "forBatch")
  /\ UNCHANGED <<returned, ledVars, listenerVars, eventVars>>

\* WritePair gone wrong: the second color of the pair is never recorded
WritePairFirstOnly(leds, buffer, colors, i) ==
  WriteLed(leds, buffer, getOrderedButtons("forBatch")[i + 1], colors[i + 1])

\* WritePair gone wrong: the two colors of the pair are recorded crosswise
WritePairSwapped(leds, buffer, colors, i) ==
  LET listOfButtons == getOrderedButtons("forBatch")
  IN IF i + 2 <= Len(colors)
       THEN WriteLed(WriteLed(leds, buffer, listOfButtons[i + 1], colors[i + 2]),
                     buffer, listOfButtons[i + 2], colors[i + 1])
       ELSE WriteLed(leds, buffer, listOfButtons[i + 1], colors[i + 1])

\* the two assignments that follow the send of the pair at i
WritePair(leds, buffer, colors, i) ==
  LET listOfButtons == getOrderedButtons("forBatch")
      first == WriteLed(leds, buffer, listOfButtons[i + 1], colors[i + 1])
  IN IF i + 2 <= Len(colors)
       THEN WriteLed(first, buffer, listOfButtons[i + 2], colors[i + 2])
       ELSE first

\* after a pair: record it, then send the next pair or, the loop over, the
\* single-LED command for button '00'
setMultipleLED_resume(t, ok) ==
  /\ Running(t) /\ tasks[t].pc = "batch"
  /\ ledBuffers' = WritePair(ledBuffers, updatingBuffer, tasks[t].colors, tasks[t].i)
  /\ LET next == [tasks[t] EXCEPT !.i = @ + 2]
     IN IF next.i < Len(next.colors)
          THEN midiSend(t, next, wire, PairMessage(next.colors, next.i), ok, "batch")
          ELSE midiSend(t, next, wire,
                        SingleLedMessage("00", next.colors[1], FALSE, FALSE), ok, "flush")
  /\ UNCHANGED <<orderVars, displayingBuffer, updatingBuffer, flashingBuffers,
                 listenerVars, eventVars, budget>>

\* the rest of the setSingleLED called by setMultipleLED
setMultipleLED_flush(t) ==
  /\ Running(t) /\ tasks[t].pc = "flush"
  /\ ledBuffers' = WriteLed(ledBuffers, updatingBuffer, "00", tasks[t].colors[1])
  /\ tasks' = [tasks EXCEPT ![t] = [Dispatched(@) EXCEPT !.pc = "final"]]
  /\ UNCHANGED <<orderVars, displayingBuffer, updatingBuffer, flashingBuffers,
                 listenerVars, eventVars, budget, wire, device>>

\* this._dispatchListener('led_changed') that ends setMultipleLED
setMultipleLED_final(t) ==
  /\ Running(t) /\ tasks[t].pc = "final"
  /\ tasks' = [tasks EXCEPT ![t] = Return(Dispatched(@))]
  /\ UNCHANGED <<orderVars, ledVars, listenerVars, eventVars, budget, wire, device>>

(***************************************************************************)
(* onButtonPressed / onButtonReleased / onLedChanged (Launchpad.js 226-267)*)
(***************************************************************************)
\* listenerIndex = this.listeners[category].push({callback}) - 1, and the
\* closure returned, which keeps the category and listenerIndex
addListener(category) ==
  /\ nregs' = nregs + 1
  /\ listeners' = [listeners EXCEPT ![category] = Append(@, nregs + 1)]
  /\ handles' = handles \cup {[category |-> category,
                               listenerIndex |-> Len(listeners[category]),
                               callback |-> nregs + 1]}
  /\ UNCHANGED <<orderVars, ledVars, eventVars, taskVars>>

onButtonPressed == addListener("pressed")

onButtonReleased == addListener("released")

onLedChanged == addListener("led_changed")

\* array.splice(index, 1), index counted from 0
Splice(array, index) ==
  [k \in 1..(IF index < Len(array) THEN Len(array) - 1 ELSE Len(array)) |->
     IF k <= index THEN array[k] ELSE array[k + 1]]

\* calling the closure returned by a registration
unsubscribe(h) ==
  /\ h \in handles
  /\ listeners' = [listeners EXCEPT ![h.category] = Splice(@, h.listenerIndex)]
  /\ UNCHANGED <<orderVars, ledVars, handles, nregs, eventVars, taskVars>>

(***************************************************************************)
(* _midiMessageListener, dispatchButtonPressed / dispatchButtonReleased    *)
(* (Launchpad.js 273-283, 392-416)                                         *)
(***************************************************************************)
\* Object.keys(Launchpad.Buttons): integer-like names in ascending order,
\* then the other names in insertion order
ObjectKeys ==
  [k \in 1..56 |-> GridName(1 + (k - 1) \div 8, (k - 1) % 8)]
  \o [k \in 1..8 |-> GridName(0, k - 1)]
  \o SideNames \o TopNames

\* MessageType gone wrong: every status byte but 0x00 is a press
MessageTypeNonZero(data) ==
  IF data[3] = 0 THEN "released" ELSE "pressed"

\* the switch on data[2]
MessageType(data) ==
  IF data[3] = 127 THEN "pressed" ELSE IF data[3] = 0 THEN "released" ELSE "none"

\* the for loop: the first button, in Object.keys order, whose key in the
\* keyspace keyToSearch equals key
FirstButton(keyToSearch, key) ==
  LET hits == {k \in DOMAIN ObjectKeys :
                 /\ Buttons[ObjectKeys[k]].keyspace = keyToSearch
                 /\ Buttons[ObjectKeys[k]].key = key}
  IN IF hits = {} THEN "none"
     ELSE ObjectKeys[CHOOSE k \in hits : \A j \in hits : k <= j]

\* the result of the loop for every byte, in both keyspaces
ButtonByKey ==
  [keyToSearch \in {"note", "automap"} |->
     [key \in 0..255 |-> FirstButton(keyToSearch, key)]]

\* FindButton gone wrong: the key is looked up among the note keys whatever
\* the first byte is
FindButtonNoteOnly(data) == ButtonByKey["note"][data[2]]

\* keyToSearch = data[0] === 0x90 ? '_note_key' : '_automap_key'
FindButton(data) ==
  ButtonByKey[IF data[1] = 144 THEN "note" ELSE "automap"][data[2]]

\* PressedAfter gone wrong: a release does not delete
PressedAfterNoDelete(pressed, type, button) ==
  IF type = "pressed" THEN pressed \cup {button} ELSE pressed

\* this._pressedButtons after add / delete
PressedAfter(pressed, type, button) ==
  IF type = "pressed" THEN pressed \cup {button} ELSE pressed \ {button}

\* the callbacks _dispatchListener(category, data) calls, in order
Callbacks(category) == listeners[category]

\* An inbound message is handled in a task of its own, which the event loop
\* starts when no continuation of a command is pending.
midiMessageListener(data) ==
  /\ Quiescent
  /\ LET type == IF Len(data) # 3 THEN "none" ELSE MessageType(data)
         button == IF type = "none" THEN "none" ELSE FindButton(data)
     IN IF button = "none"
          THEN /\ delivered' = [NoDelivery EXCEPT !.type = "dropped"]
               /\ UNCHANGED <<pressedButtons, lastPress>>
          ELSE /\ pressedButtons' = PressedAfter(pressedButtons, type, button)
               /\ delivered' = [type |-> type, button |-> button,
                                calls |-> Callbacks(type)]
               /\ lastPress' = IF data[3] = 127 THEN lastPress \cup {button}
                               ELSE lastPress \ {button}
  /\ UNCHANGED <<orderVars, ledVars, listenerVars, taskVars>>

\* dispatchButtonPressed gone wrong: the faked press is recorded as a press
dispatchButtonPressedRecorded(button) ==
  /\ delivered' = [type |-> "fake pressed", button |-> button, calls |-> Callbacks("pressed")]
  /\ pressedButtons' = pressedButtons \cup {button}
  /\ UNCHANGED <<orderVars, ledVars, listenerVars, lastPress, taskVars>>

dispatchButtonPressed(button) ==
  /\ delivered' = [type |-> "fake pressed", button |-> button, calls |-> Callbacks("pressed")]
  /\ UNCHANGED <<orderVars, ledVars, listenerVars, pressedButtons, lastPress, taskVars>>

dispatchButtonReleased(button) ==
  /\ delivered' = [type |-> "fake released", button |-> button, calls |-> Callbacks("released")]
  /\ UNCHANGED <<orderVars, ledVars, listenerVars, pressedButtons, lastPress, taskVars>>

\* getOrderedButtons(order) called by the host
getOrderedButtons_call(order) ==
  /\ cachedOrderedButtons' = Cached(cachedOrderedButtons, order)
  /\ returned' = [order |-> order,
                  list |-> IF order \in Orders THEN cachedOrderedButtons'[order]
                           ELSE <<>>]
  /\ UNCHANGED <<ledVars, listenerVars, eventVars, taskVars>>

(***************************************************************************)
(* Spec: one caller that awaits each command before it issues the next,    *)
(* with arguments every command accepts                                    *)
(***************************************************************************)
\* the caller is the first task
Caller == CHOOSE t \in Tasks : \A u \in Tasks : t <= u

\* a batch of n colors that alternates, starting with `first`
Alternating(n, first) ==
  [k \in 1..n |-> IF k % 2 = 1 THEN first
                  ELSE IF first = "Red" THEN "Green" ELSE "Red"]

\* batches of every length up to MaxBatch: the odd ones start with Green,
\* the even ones with Red
InBatches ==
  {Alternating(n, IF n % 2 = 1 THEN "Green" ELSE "Red") : n \in 1..MaxBatch}

Init == Constructed /\ budget = MaxCmds

Next ==
  \/ \E ok \in BOOLEAN : reset_call(Caller, ok)
  \/ reset_resume(Caller)
  \/ \E b \in {"low", "medium", "high"}, ok \in BOOLEAN : allLEDsOn_call(Caller, b, ok)
  \/ allLEDsOn_resume(Caller)
  \/ \E button \in {"00", "Up"}, color \in {"Red", "Green"}, flag \in BOOLEAN,
        ok \in BOOLEAN :
       setSingleLED_call(Caller, button, color, flag, flag, ok)
  \/ setSingleLED_resume(Caller)
  \/ \E ok \in BOOLEAN : switchDisplayingBuffer_call(Caller, ok)
  \/ \E copy \in BOOLEAN, ok \in BOOLEAN : switchUpdatingBuffer_call(Caller, copy, ok)
  \/ \E ok \in BOOLEAN : switchFlash_call(Caller, ok)
  \/ updateBufferStatus_resume(Caller)
  \/ \E colors \in InBatches, ok \in BOOLEAN : setMultipleLED_call(Caller, colors, ok)
  \/ \E ok \in BOOLEAN : setMultipleLED_resume(Caller, ok)
  \/ setMultipleLED_flush(Caller)
  \/ setMultipleLED_final(Caller)
  \/ nregs < MaxLedListeners /\ onLedChanged
  \/ midiMessageListener(<<144, 0, 127>>)

Spec == Init /\ [][Next]_vars

(***************************************************************************)
(* SpecArgs: one caller, every command, arguments the commands accept and  *)
(* arguments they refuse                                                   *)
(***************************************************************************)
InButtons == {"00", "Up", NullButton, UnknownButton}

InColors == {"Red", "Green", NullColor, NotAColor}

InBrightness == {"low", "medium", "high", "ultra", "constructor"}

InNumerators == {0, 1, 8, 9, 16, 17}

InDenominators == {2, 3, 18, 19}

InLevels == 0..6

\* the empty batch, short batches with and without an entry that is not a
\* color, the longest batch accepted and the shortest one refused
InArgBatches ==
  {<<>>, <<"Red">>, <<"Green", "Red">>, <<NullColor>>, <<"Red", NotAColor>>,
   <<"Red", "Green", NullColor>>, <<"Red", "Green", "Red", "Green", NotAColor>>,
   [k \in 1..80 |-> IF k % 2 = 1 THEN "Red" ELSE "Green"],
   [k \in 1..81 |-> "Red"]}

InitArgs == Constructed /\ budget = MaxArgCmds

NextArgs ==
  \/ \E ok \in BOOLEAN : reset_call(Caller, ok)
  \/ reset_resume(Caller)
  \/ \E b \in InBrightness, ok \in BOOLEAN : allLEDsOn_call(Caller, b, ok)
  \/ allLEDsOn_resume(Caller)
  \/ \E button \in InButtons, color \in InColors, both \in BOOLEAN,
        off \in BOOLEAN, ok \in BOOLEAN :
       setSingleLED_call(Caller, button, color, both, off, ok)
  \/ setSingleLED_resume(Caller)
  \/ \E copy \in BOOLEAN, ok \in BOOLEAN : switchUpdatingBuffer_call(Caller, copy, ok)
  \/ updateBufferStatus_resume(Caller)
  \/ \E n \in InNumerators, d \in InDenominators, ok \in BOOLEAN :
       setDutyCycle_call(Caller, n, d, ok)
  \/ \E level \in InLevels, ok \in BOOLEAN : setBrightness_call(Caller, level, ok)
  \/ setDutyCycle_resume(Caller)
  \/ \E colors \in InArgBatches, ok \in BOOLEAN : setMultipleLED_call(Caller, colors, ok)
  \/ \E ok \in BOOLEAN : setMultipleLED_resume(Caller, ok)
  \/ setMultipleLED_flush(Caller)
  \/ setMultipleLED_final(Caller)
  \/ nregs < MaxLedListeners /\ onLedChanged

SpecArgs == InitArgs /\ [][NextArgs]_vars

(***************************************************************************)
(* SpecEncode: setSingleLED with every color of the palette and every      *)
(* combination of its two flags                                            *)
(***************************************************************************)
InitEncode == Constructed /\ budget = MaxEncodeCmds

NextEncode ==
  \/ \E ok \in BOOLEAN : reset_call(Caller, ok)
  \/ reset_resume(Caller)
  \/ \E button \in {"00", "Up"}, color \in ColorNames, both \in BOOLEAN,
        off \in BOOLEAN, ok \in BOOLEAN :
       setSingleLED_call(Caller, button, color, both, off, ok)
  \/ setSingleLED_resume(Caller)

SpecEncode == InitEncode /\ [][NextEncode]_vars

(***************************************************************************)
(* SpecDuty: setDutyCycle with every numerator and denominator it accepts  *)
(* and the nearest ones it refuses, setBrightness with every level         *)
(***************************************************************************)
InitDuty == Constructed /\ budget = MaxDutyCmds

NextDuty ==
  \/ \E ok \in BOOLEAN : reset_call(Caller, ok)
  \/ reset_resume(Caller)
  \/ \E n \in 0..17, d \in 2..19, ok \in BOOLEAN : setDutyCycle_call(Caller, n, d, ok)
  \/ \E level \in 0..6, ok \in BOOLEAN : setBrightness_call(Caller, level, ok)
  \/ setDutyCycle_resume(Caller)

SpecDuty == InitDuty /\ [][NextDuty]_vars

(***************************************************************************)
(* SpecOrder: the host asks for the button orders, before and after        *)
(* commands that use them                                                  *)
(***************************************************************************)
InOrders == {"physical", "forBatch", "none"}

InitOrder == Constructed /\ budget = MaxOrderCmds

NextOrder ==
  \/ \E order \in InOrders : getOrderedButtons_call(order)
  \/ \E ok \in BOOLEAN : reset_call(Caller, ok)
  \/ reset_resume(Caller)
  \/ \E colors \in {<<"Red">>, <<"Red", "Green", "Red">>}, ok \in BOOLEAN :
       setMultipleLED_call(Caller, colors, ok)
  \/ \E ok \in BOOLEAN : setMultipleLED_resume(Caller, ok)
  \/ setMultipleLED_flush(Caller)
  \/ setMultipleLED_final(Caller)

SpecOrder == InitOrder /\ [][NextOrder]_vars

(***************************************************************************)
(* SpecFrame: every outbound command and the two fake dispatches, while    *)
(* buttons are pressed and released                                        *)
(***************************************************************************)
InFrameMessages == {<<144, 0, 127>>, <<144, 0, 0>>, <<176, 104, 127>>, <<144, 0, 64>>}

InitFrame == Constructed /\ budget = MaxFrameCmds

NextFrame ==
  \/ \E ok \in BOOLEAN : reset_call(Caller, ok)
  \/ reset_resume(Caller)
  \/ allLEDsOn_call(Caller, "low", TRUE)
  \/ allLEDsOn_resume(Caller)
  \/ \E button \in {"00", NullButton}, color \in {"Red", NotAColor} :
       setSingleLED_call(Caller, button, color, FALSE, FALSE, TRUE)
  \/ setSingleLED_resume(Caller)
  \/ switchDisplayingBuffer_call(Caller, TRUE)
  \/ \E copy \in BOOLEAN : switchUpdatingBuffer_call(Caller, copy, TRUE)
  \/ \E ok \in BOOLEAN : switchFlash_call(Caller, ok)
  \/ updateBufferStatus_resume(Caller)
  \/ \E n \in {0, 9} : setDutyCycle_call(Caller, n, 3, TRUE)
  \/ \E level \in {0, 5} : setBrightness_call(Caller, level, TRUE)
  \/ setDutyCycle_resume(Caller)
  \/ \E colors \in {<<"Red">>, <<"Red", "Green", "Red">>, <<"Red", NullColor>>} :
       setMultipleLED_call(Caller, colors, TRUE)
  \/ \E ok \in BOOLEAN : setMultipleLED_resume(Caller, ok)
  \/ setMultipleLED_flush(Caller)
  \/ setMultipleLED_final(Caller)
  \/ nregs < MaxLedListeners /\ onButtonPressed
  \/ \E data \in InFrameMessages : midiMessageListener(data)
  \/ \E button \in {"00", "Up"} : dispatchButtonPressed(button)
  \/ \E button \in {"00", "Up"} : dispatchButtonReleased(button)

SpecFrame == InitFrame /\ [][NextFrame]_vars

(***************************************************************************)
(* SpecWork: workOnBackgroundBuffer from the buffer-control states the     *)
(* switch operations lead to                                               *)
(***************************************************************************)
InitWork == Constructed /\ budget = MaxWorkCmds

NextWork ==
  \/ \E ok \in BOOLEAN : reset_call(Caller, ok)
  \/ reset_resume(Caller)
  \/ \E ok \in BOOLEAN : switchDisplayingBuffer_call(Caller, ok)
  \/ \E copy \in BOOLEAN, ok \in BOOLEAN : switchUpdatingBuffer_call(Caller, copy, ok)
  \/ updateBufferStatus_resume(Caller)
  \/ \E ok \in BOOLEAN : workOnBackgroundBuffer_call(Caller, "00", "Red", ok)
  \/ \E ok \in BOOLEAN : workOnBackgroundBuffer_update(Caller, ok)
  \/ \E ok \in BOOLEAN : workOnBackgroundBuffer_display(Caller, ok)
  \/ \E ok \in BOOLEAN : workOnBackgroundBuffer_work(Caller, ok)
  \/ \E ok \in BOOLEAN : workOnBackgroundBuffer_back(Caller, ok)
  \/ workOnBackgroundBuffer_return(Caller)
  \/ nregs < MaxLedListeners /\ onLedChanged

SpecWork == InitWork /\ [][NextWork]_vars

(***************************************************************************)
(* SpecMirror: one caller that awaits each command, every send succeeds;   *)
(* setSingleLED with every combination of its flags, batches of odd and    *)
(* even length up to the longest, the switch operations with and without   *)
(* copy                                                                    *)
(***************************************************************************)
InMirrorBatches ==
  {<<"Red">>, <<"Green", "Red">>, Alternating(79, "Red"), Alternating(80, "Green")}

InitMirror == Constructed /\ budget = MaxMirrorCmds

NextMirror ==
  \/ reset_call(Caller, TRUE)
  \/ reset_resume(Caller)
  \/ allLEDsOn_call(Caller, "low", TRUE)
  \/ allLEDsOn_resume(Caller)
  \/ \E button \in {"00", "Up"}, both \in BOOLEAN, off \in BOOLEAN :
       setSingleLED_call(Caller, button, "Red", both, off, TRUE)
  \/ setSingleLED_resume(Caller)
  \/ switchDisplayingBuffer_call(Caller, TRUE)
  \/ \E copy \in BOOLEAN : switchUpdatingBuffer_call(Caller, copy, TRUE)
  \/ switchFlash_call(Caller, TRUE)
  \/ updateBufferStatus_resume(Caller)
  \/ \E colors \in InMirrorBatches : setMultipleLED_call(Caller, colors, TRUE)
  \/ setMultipleLED_resume(Caller, TRUE)
  \/ setMultipleLED_flush(Caller)
  \/ setMultipleLED_final(Caller)

SpecMirror == InitMirror /\ [][NextMirror]_vars

(***************************************************************************)
(* SpecOverlap: two callers; each awaits its own commands but not the      *)
(* other's, so that two setMultipleLED may be in flight together           *)
(***************************************************************************)
InOverlapBatches == {<<"Red", "Red", "Red">>, <<"Green", "Green", "Green", "Green">>}

InitOverlap == Constructed /\ budget = MaxOverlapCmds

NextOverlap ==
  \/ reset_call(Caller, TRUE)
  \/ reset_resume(Caller)
  \/ \E t \in Tasks, colors \in InOverlapBatches : setMultipleLED_call(t, colors, TRUE)
  \/ \E t \in Tasks, ok \in BOOLEAN : setMultipleLED_resume(t, ok)
  \/ \E t \in Tasks : setMultipleLED_flush(t)
  \/ \E t \in Tasks : setMultipleLED_final(t)

SpecOverlap == InitOverlap /\ [][NextOverlap]_vars

(***************************************************************************)
(* SpecEvents: listeners come and go while inbound messages arrive         *)
(***************************************************************************)
\* presses and releases of a grid button, a side button and a top button;
\* key 104 in both keyspaces; keys of no button in either keyspace (9 is no
\* note key, 0 is no automap key, 105 is an automap key only), a status byte
\* that is neither 0x7F nor 0x00, and messages of two and of four bytes
InMessages ==
  {<<144, 0, 127>>, <<144, 0, 0>>, <<144, 104, 127>>, <<144, 104, 0>>,
   <<176, 104, 127>>, <<176, 104, 0>>, <<144, 9, 127>>, <<144, 0, 64>>, <<144, 0>>,
   <<176, 0, 127>>, <<144, 105, 0>>, <<144, 0, 127, 0>>}

InitEvents == Constructed /\ budget = 0

NextEvents ==
  \/ nregs < MaxRegs /\ onButtonPressed
  \/ nregs < MaxRegs /\ onButtonReleased
  \/ nregs < MaxRegs /\ onLedChanged
  \/ \E h \in handles : unsubscribe(h)
  \/ \E data \in InMessages : midiMessageListener(data)
  \/ \E button \in {"00", "Up"} : dispatchButtonPressed(button)
  \/ \E button \in {"00", "Up"} : dispatchButtonReleased(button)

SpecEvents == InitEvents /\ [][NextEvents]_vars

(***************************************************************************)
(* Properties                                                              *)
(***************************************************************************)
\* the step in which the command `op` of task t returns
Completes(t, op) ==
  tasks[t].op = op /\ tasks[t].status = "running" /\ tasks'[t].status = "done"

\* `leds` with the first m buttons of the batch order set, in buffer
\* `buffer`, to the first m colors
BatchPrefix(leds, buffer, colors, m) ==
  [b \in {0, 1} |->
     [n \in ButtonNames |->
        IF b = buffer /\ \E k \in 1..m : getOrderedButtons("forBatch")[k] = n
          THEN colors[CHOOSE k \in 1..m : getOrderedButtons("forBatch")[k] = n]
          ELSE leds[b][n]]]

\* C1: a setSingleLED that returns has set the entry of its button in the
\* buffer that updatingBuffer names to its color, has left every other entry
\* of both buffers, the three buffer-control fields and the pressed set as
\* they were when it was called, and has notified the led_changed listeners
\* once.
C1_SetSingleLedChangesOneEntry ==
  [][\A t \in Tasks : Completes(t, "setSingleLED") =>
       LET p == tasks[t].pre
           button == tasks[t].args[1]
           color == tasks[t].args[2]
       IN /\ ledBuffers' = [b \in {0, 1} |-> [n \in ButtonNames |->
                              IF b = p.update /\ n = button THEN color ELSE p.leds[b][n]]]
          /\ displayingBuffer' = p.display
          /\ updatingBuffer' = p.update
          /\ flashingBuffers' = p.flash
          /\ pressedButtons' = p.pressed
          /\ tasks'[t].dispatches = 1
          /\ tasks'[t].notified = listeners'["led_changed"]]_vars

C1_Witness ==
  \E t \in Tasks :
    /\ tasks[t].op = "setSingleLED" /\ tasks[t].status = "done"
    /\ tasks[t].pre.update = 1
    /\ ledBuffers[1]["Up"] = "Green" /\ ledBuffers[0]["Up"] = "Off"
    /\ pressedButtons = {"00"}
    /\ tasks[t].notified = <<1>>

\* C2: a reset that returns leaves every button of the registry Off in both
\* buffers, updatingBuffer = 0, displayingBuffer = 0 and flashing off, has
\* sent the one message [0xB0, 0, 0] and has notified the led_changed
\* listeners once.
C2_ResetClearsEverything ==
  [][\A t \in Tasks : Completes(t, "reset") =>
       /\ DOMAIN ledBuffers' = {0, 1}
       /\ \A b \in {0, 1} :
            /\ DOMAIN ledBuffers'[b] = ButtonNames
            /\ \A n \in ButtonNames : ledBuffers'[b][n] = "Off"
       /\ updatingBuffer' = 0
       /\ displayingBuffer' = 0
       /\ flashingBuffers' = 0
       /\ tasks'[t].sent = << <<176, 0, 0>> >>
       /\ tasks'[t].dispatches = 1
       /\ tasks'[t].notified = listeners'["led_changed"]]_vars

C2_Witness ==
  \E t \in Tasks :
    /\ tasks[t].op = "reset" /\ tasks[t].status = "done"
    /\ tasks[t].pre.leds # NoBuffers
    /\ tasks[t].pre.leds[0]["Up"] = "Red"
    /\ ledBuffers[0]["Up"] = "Off"
    /\ tasks[t].notified = <<1>>

\* C3: a setMultipleLED of n colors (1 <= n <= 80) that returns has set, in
\* the buffer updatingBuffer names, the entry of the i-th button of the batch
\* order to the i-th color for every i <= n, and has left every other entry
\* of both buffers as it was; setMultipleLED([Red]) changes button '00' only.
C3_SetMultipleLedWritesPrefix ==
  [][\A t \in Tasks : Completes(t, "setMultipleLED") =>
       LET p == tasks[t].pre
           colors == tasks[t].args[1]
       IN /\ Len(colors) \in 1..80
          /\ ledBuffers' = BatchPrefix(p.leds, p.update, colors, Len(colors))
          /\ colors = <<"Red">> =>
               ledBuffers' = [p.leds EXCEPT ![p.update]["00"] = "Red"]]_vars

C3_Witness ==
  \E t \in Tasks :
    /\ tasks[t].op = "setMultipleLED" /\ tasks[t].status = "done"
    /\ Len(tasks[t].args[1]) = 3
    /\ tasks[t].pre.leds[0]["30"] = "AmberLow"
    /\ ledBuffers[0]["00"] = "Green" /\ ledBuffers[0]["10"] = "Red"
    /\ ledBuffers[0]["20"] = "Green" /\ ledBuffers[0]["30"] = "AmberLow"
    /\ ledBuffers[1]["00"] = "AmberLow"

\* the button a message of three bytes resolves to: the one whose key, in
\* the keyspace the first byte selects, is the second byte
Resolves(data, b) ==
  /\ Buttons[b].keyspace = (IF data[1] = 144 THEN "note" ELSE "automap")
  /\ Buttons[b].key = data[2]

\* C4: an inbound message of three bytes that resolves to a button and has
\* status byte 0x7F adds the button to the pressed set and calls each
\* registered 'pressed' listener once with it, and no other listener; with
\* status byte 0x00 it removes the button and calls each 'released' listener
\* once.  So the pressed set holds the buttons whose latest resolved message
\* was a press.
C4_InboundUpdatesPressedAndNotifies ==
  [][/\ \A data \in InMessages :
          (midiMessageListener(data) /\ Len(data) = 3) =>
            \A b \in ButtonNames : Resolves(data, b) =>
              /\ data[3] = 127 =>
                   /\ pressedButtons' = pressedButtons \cup {b}
                   /\ delivered' = [type |-> "pressed", button |-> b,
                                    calls |-> listeners["pressed"]]
              /\ data[3] = 0 =>
                   /\ pressedButtons' = pressedButtons \ {b}
                   /\ delivered' = [type |-> "released", button |-> b,
                                    calls |-> listeners["released"]]
     /\ pressedButtons' = lastPress']_vars

C4_Witness ==
  /\ delivered.type = "released" /\ delivered.button = "Solo"
  /\ delivered.calls # <<>>
  /\ pressedButtons = {"Up"}

\* what the claim C5 calls invalid input
InvalidInput(op, args) ==
  \/ op = "setSingleLED" /\ (args[1] \notin ButtonNames \/ args[2] \notin ColorNames)
  \/ op = "setMultipleLED" /\ \/ Len(args[1]) = 0
                              \/ Len(args[1]) > 80
                              \/ \E k \in DOMAIN args[1] : args[1][k] \notin ColorNames
  \/ op = "setDutyCycle" /\ (args[1] \notin 1..16 \/ args[2] \notin 3..18)
  \/ op = "setBrightness" /\ args[1] \notin 1..5

C6_UnsubscribeRemovesItsListener ==
  [][\A h \in handles : unsubscribe(h) =>
       LET Other(callback) == callback # h.callback
       IN listeners'[h.category] = SelectSeq(listeners[h.category], Other)]_vars

\* C7: when no command is in flight, displayingBuffer, updatingBuffer and
\* flashingBuffers are the values of the last reset or buffer-control message
\* that was sent.
C7_MirrorIsLastSent ==
  (Quiescent /\ Ready) =>
    /\ displayingBuffer = device.display
    /\ updatingBuffer = device.update
    /\ flashingBuffers = device.flash

SwitchOps == {"switchDisplayingBuffer", "switchUpdatingBuffer", "switchFlash"}

\* C8: a switchDisplayingBuffer, switchUpdatingBuffer(copy) or switchFlash
\* that returns has toggled its own field, has left the other two fields and
\* both LED buffers as they were, and has sent the one message
\* [0xB0, 0, 32 + display + update * 4 + flash * 8 + copy * 16] of the values
\* after the toggle; it has notified led_changed once when copy is true and
\* not at all otherwise.
C8_SwitchTogglesOwnField ==
  [][\A t \in Tasks : \A op \in SwitchOps : Completes(t, op) =>
       LET p == tasks[t].pre
           copy == op = "switchUpdatingBuffer" /\ tasks[t].args[1]
       IN /\ displayingBuffer' =
               IF op = "switchDisplayingBuffer" THEN 1 - p.display ELSE p.display
          /\ updatingBuffer' =
               IF op = "switchUpdatingBuffer" THEN 1 - p.update ELSE p.update
          /\ flashingBuffers' = IF op = "switchFlash" THEN 1 - p.flash ELSE p.flash
          /\ ledBuffers' = p.leds
          /\ tasks'[t].sent =
               << <<176, 0, 32 + displayingBuffer' + updatingBuffer' * 4
                            + flashingBuffers' * 8 + (IF copy THEN 16 ELSE 0)>> >>
          /\ tasks'[t].dispatches = (IF copy THEN 1 ELSE 0)
          /\ tasks'[t].notified = (IF copy THEN listeners'["led_changed"] ELSE <<>>)]_vars

C8_Witness ==
  \E t \in Tasks :
    /\ tasks[t].op = "switchUpdatingBuffer" /\ tasks[t].status = "done"
    /\ tasks[t].args = <<TRUE>>
    /\ tasks[t].pre.display = 1
    /\ tasks[t].sent = << <<176, 0, 53>> >>
    /\ tasks[t].notified = <<1>>

\* the step in which a send of setMultipleLED fails
BatchSendFails(t) ==
  /\ tasks'[t].op = "setMultipleLED"
  /\ tasks'[t].status = "error" /\ tasks'[t].error = "ChannelFailure"
  /\ tasks[t].status = "running" \/ budget' # budget

\* C9: when the send of the k-th paired message of setMultipleLED fails, the
\* command ends with the channel's error, the step sends nothing, and the
\* updating buffer holds the colors of the k - 1 pairs sent before (the first
\* 2(k - 1) buttons of the batch order), every other entry being as it was
\* when the command was called.
C9_FailedBatchKeepsSentPrefix ==
  [][\A t \in Tasks :
       LET p == tasks'[t].pre
           colors == tasks'[t].args[1]
           pairs == Len(tasks'[t].sent)
       IN (BatchSendFails(t) /\ 2 * pairs < Len(colors)) =>
            /\ wire' = (IF tasks[t].status = "running" THEN wire ELSE <<>>)
            /\ \A k \in 1..pairs : tasks'[t].sent[k][1] = 146
            /\ ledBuffers' = BatchPrefix(p.leds, p.update, colors, 2 * pairs)
            /\ tasks'[t].dispatches = 0]_vars

C9_Witness ==
  \E t \in Tasks :
    /\ tasks[t].op = "setMultipleLED"
    /\ tasks[t].status = "error" /\ tasks[t].error = "ChannelFailure"
    /\ Len(tasks[t].args[1]) = 4
    /\ Len(tasks[t].sent) = 1
    /\ tasks[t].pre.leds[0]["20"] = "AmberMed"
    /\ ledBuffers[0]["00"] = "Red" /\ ledBuffers[0]["10"] = "Green"
    /\ ledBuffers[0]["20"] = "AmberMed"

\* C10: a setMultipleLED that returns has notified the led_changed listeners
\* once.
C10_BatchNotifiesOnce ==
  \A t \in Tasks :
    (tasks[t].op = "setMultipleLED" /\ tasks[t].status = "done") =>
      tasks[t].dispatches = 1

\* a message _midiMessageListener has no button for
Unrecognized(data) ==
  \/ Len(data) # 3
  \/ data[3] \notin {127, 0}
  \/ ~ \E b \in ButtonNames : Resolves(data, b)

\* C11: an inbound message whose length is not 3, whose status byte is
\* neither 0x7F nor 0x00, or whose key is the key of no button in the
\* keyspace its first byte selects is dropped: the pressed set is unchanged,
\* no listener of any category is called, and the handler returns without
\* an error.
C11_UnrecognizedMessageIsDropped ==
  [][\A data \in InMessages :
       (midiMessageListener(data) /\ Unrecognized(data)) =>
         /\ pressedButtons' = pressedButtons
         /\ delivered'.type = "dropped"
         /\ delivered'.calls = <<>>]_vars

C11_Witness ==
  /\ delivered.type = "dropped"
  /\ pressedButtons = {"00", "Up"}
  /\ listeners["pressed"] # <<>> /\ listeners["released"] # <<>>

\* the buttons whose key in the keyspace is the key
ButtonsWithKey(keyspace, key) ==
  {b \in ButtonNames : Buttons[b].keyspace = keyspace /\ Buttons[b].key = key}

\* no key belongs to two buttons of one keyspace
KeysAreUnique ==
  \A keyspace \in {"note", "automap"} : \A key \in 0..255 :
    Cardinality(ButtonsWithKey(keyspace, key)) <= 1

\* C12: an inbound press or release resolves by keyspace and unambiguously:
\* with first byte 0x90 to the only button whose note key is the second
\* byte, with any other first byte to the only button whose automap key is
\* the second byte; no key belongs to two buttons of one keyspace (104 is
\* Solo under 0x90 and Up otherwise); a press makes the resolved button
\* pressed and a release for the same key makes it not pressed.
C12_ResolutionByKeyspace ==
  [][/\ KeysAreUnique
     /\ ButtonsWithKey("note", 104) = {"Solo"}
     /\ ButtonsWithKey("automap", 104) = {"Up"}
     /\ \A data \in InMessages :
          (midiMessageListener(data) /\ Len(data) = 3 /\ data[3] \in {0, 127}) =>
            LET resolved == ButtonsWithKey(IF data[1] = 144 THEN "note" ELSE "automap",
                                           data[2])
            IN resolved # {} =>
                 /\ resolved = {delivered'.button}
                 /\ data[3] = 127 => delivered'.button \in pressedButtons'
                 /\ data[3] = 0 => delivered'.button \notin pressedButtons'
                 /\ \A b \in ButtonNames \ resolved :
                      b \in pressedButtons' <=> b \in pressedButtons]_vars

C12_Witness ==
  /\ delivered.type = "released" /\ delivered.button = "Up"
  /\ pressedButtons = {"Solo"}

\* the velocity byte of the message a setSingleLED sent
VelocitySent(t) == tasks[t].sent[1][3]

\* a setSingleLED whose message went out
SingleLedSent(t) == tasks[t].op = "setSingleLED" /\ Len(tasks[t].sent) = 1

C14_BothBuffersTakesPrecedence ==
  \A t \in Tasks :
    (SingleLedSent(t) /\ tasks[t].args[3] /\ tasks[t].args[4]) =>
      /\ VelocitySent(t) = colorToMIDIVelocity(tasks[t].args[2], TRUE, FALSE)
      /\ VelocitySent(t) = 12 + Colors[tasks[t].args[2]].r
                              + Colors[tasks[t].args[2]].g * 16

\* [0xB0, addr, v] as the duty cycle n / d is documented to be sent
DutyCycleBytes(n, d) ==
  <<176, IF n <= 8 THEN 30 ELSE 31, 16 * ((n - 1) % 8) + (d - 3)>>

\* a command that got as far as its send, and had the send succeed
HasSent(t, op) ==
  tasks[t].op = op /\ tasks[t].status \in {"running", "done"}

\* C15: for every numerator in 1..16 and denominator in 3..18 setDutyCycle
\* sends one message [0xB0, addr, v], addr = 0x1E for numerator <= 8 and 0x1F
\* otherwise, v = 16 * ((numerator - 1) mod 8) + (denominator - 3), with v in
\* 0..127; (1, 3) gives 0x1E and 0, (16, 18) gives 0x1F and 127;
\* setBrightness(level), level in 1..5, sends what setDutyCycle(level, 5)
\* sends.
C15_DutyCycleEncoding ==
  /\ DutyCycleBytes(1, 3) = <<176, 30, 0>>
  /\ DutyCycleBytes(16, 18) = <<176, 31, 127>>
  /\ \A t \in Tasks :
       /\ HasSent(t, "setDutyCycle") =>
            /\ tasks[t].args[1] \in 1..16 /\ tasks[t].args[2] \in 3..18
            /\ tasks[t].sent = <<DutyCycleBytes(tasks[t].args[1], tasks[t].args[2])>>
            /\ wire = <<[task |-> t, msg |-> tasks[t].sent[1]]>>
            /\ tasks[t].sent[1][3] \in 0..127
       /\ HasSent(t, "setBrightness") =>
            /\ tasks[t].args[1] \in 1..5
            /\ tasks[t].sent = <<DutyCycleBytes(tasks[t].args[1], 5)>>
            /\ wire = <<[task |-> t, msg |-> tasks[t].sent[1]]>>
       /\ (tasks[t].op \in {"setDutyCycle", "setBrightness"}
           /\ tasks[t].status = "error") => tasks[t].sent = <<>>

C15_Witness ==
  /\ tasks[Caller].op = "setDutyCycle" /\ tasks[Caller].status = "done"
  /\ tasks[Caller].args = <<16, 18>>
  /\ tasks[Caller].sent = <<(<<176, 31, 127>>)>>

\* the brightness an allLEDsOn is documented to act with: the one given if
\* it is low, medium or high, and medium for any other value
DocumentedBrightness(brightness) ==
  IF brightness \in {"low", "medium", "high"} THEN brightness ELSE "medium"

\* C16: an allLEDsOn(brightness) that returns has sent exactly
\* [0xB0, 0x00, b], b = 0x7D / 0x7E / 0x7F for low / medium / high, has set
\* every button in both buffers to AmberLow / AmberMed / Amber, and has
\* notified led_changed once; a brightness that is none of low, medium, high
\* acts as medium and raises no error.
C16_AllLedsOn ==
  \A t \in Tasks :
    /\ tasks[t].op = "allLEDsOn" => tasks[t].error \in {"none", "ChannelFailure"}
    /\ (tasks[t].op = "allLEDsOn" /\ tasks[t].status = "done") =>
         LET brightness == DocumentedBrightness(tasks[t].args[1])
             b == IF brightness = "low" THEN 125
                  ELSE IF brightness = "medium" THEN 126 ELSE 127
             color == IF brightness = "low" THEN "AmberLow"
                      ELSE IF brightness = "medium" THEN "AmberMed" ELSE "Amber"
         IN /\ tasks[t].sent = <<(<<176, 0, b>>)>>
            /\ \A buffer \in {0, 1} : \A n \in ButtonNames :
                 ledBuffers[buffer][n] = color
            /\ tasks[t].dispatches = 1

\* every button of the registry occurs once in the list, and nothing else
EveryButtonOnce(list) ==
  /\ Len(list) = Cardinality(ButtonNames)
  /\ \A n \in ButtonNames : \E k \in DOMAIN list : list[k] = n

\* C17: getOrderedButtons('physical') and getOrderedButtons('forBatch')
\* each return every button of the registry once and nothing else; the
\* batch order is the 64 grid buttons with y outer and x inner, then Vol,
\* Pan, SendA, SendB, Stop, TrackOn, Solo, Arm, then Up, Down, Left, Right,
\* Session, User1, User2, Mixer; the physical order is the 8 top buttons and
\* then, row by row, the 8 grid buttons of the row and its side button; a
\* repeated call returns the order the earlier call returned.
C17_OrdersListEveryButtonOnce ==
  [][\A order \in Orders : getOrderedButtons_call(order) =>
       LET list == returned'.list
       IN /\ EveryButtonOnce(list)
          /\ order = "forBatch" =>
               /\ \A y \in 0..7 : \A x \in 0..7 : list[8 * y + x + 1] = GridName(x, y)
               /\ SubSeq(list, 65, 72) =
                    <<"Vol", "Pan", "SendA", "SendB", "Stop", "TrackOn", "Solo", "Arm">>
               /\ SubSeq(list, 73, 80) =
                    <<"Up", "Down", "Left", "Right", "Session", "User1", "User2", "Mixer">>
          /\ order = "physical" =>
               /\ SubSeq(list, 1, 8) =
                    <<"Up", "Down", "Left", "Right", "Session", "User1", "User2", "Mixer">>
               /\ \A y \in 0..7 :
                    /\ \A x \in 0..7 : list[8 + 9 * y + x + 1] = GridName(x, y)
                    /\ list[8 + 9 * y + 9] = SideNames[y + 1]
          /\ cachedOrderedButtons[order] # <<>> => list = cachedOrderedButtons[order]
          /\ returned.order = order => list = returned.list]_vars

C17_Witness ==
  /\ returned.order = "physical" /\ Len(returned.list) = 80
  /\ cachedOrderedButtons["forBatch"] # <<>>
  /\ tasks[Caller].op = "setMultipleLED" /\ tasks[Caller].status = "done"

\* isButtonPressed(button)
isButtonPressed(button) == button \in pressedButtons

\* C18: the pressed set is changed only by the handling of an inbound press
\* or release: a step of an outbound command (reset, allLEDsOn,
\* setSingleLED, setMultipleLED, the switch operations, setDutyCycle,
\* setBrightness) and a call of dispatchButtonPressed / dispatchButtonReleased
\* leave the result of isButtonPressed as it was for every button.
C18_PressedSetFrame ==
  [][/\ (\E b \in ButtonNames : isButtonPressed(b)' # isButtonPressed(b)) =>
          \E data \in InFrameMessages :
            /\ midiMessageListener(data)
            /\ Len(data) = 3 /\ data[3] \in {0, 127}
     /\ tasks' # tasks => pressedButtons' = pressedButtons
     /\ \A button \in ButtonNames :
          (dispatchButtonPressed(button) \/ dispatchButtonReleased(button)) =>
            pressedButtons' = pressedButtons]_vars

C18_Witness ==
  /\ tasks[Caller].op = "setBrightness" /\ tasks[Caller].status = "done"
  /\ tasks[Caller].pre.pressed = {"00", "Up"}
  /\ delivered.type = "fake released" /\ delivered.button = "00"
  /\ pressedButtons = {"00", "Up"}

\* the messages workOnBackgroundBuffer is documented to send, in order, when
\* called with the fields d, u, f and a work that sets button to color:
\* switchUpdatingBuffer(copy), switchUpdatingBuffer, switchDisplayingBuffer,
\* the work, switchDisplayingBuffer
WorkMessages(d, u, f, button, color) ==
  <<BufferStatusMessage(d, 1 - u, f, TRUE),
    BufferStatusMessage(d, u, f, FALSE),
    BufferStatusMessage(1 - d, u, f, FALSE),
    SingleLedMessage(button, color, FALSE, FALSE),
    BufferStatusMessage(d, u, f, FALSE)>>

\* C19: workOnBackgroundBuffer(work), called from any reachable
\* buffer-control state with no other command in flight, sends its sub-steps
\* in the order switchUpdatingBuffer(copy), switchUpdatingBuffer,
\* switchDisplayingBuffer, work, switchDisplayingBuffer; while the work runs
\* the displaying buffer is not the updating buffer; when the call returns
\* displayingBuffer and updatingBuffer are what they were before the call.
C19_WorkOnBackgroundBuffer ==
  \A t \in Tasks : tasks[t].op = "workOnBackgroundBuffer" =>
    /\ tasks[t].status \in {"running", "done"} =>
         \E k \in 1..5 :
           tasks[t].sent = SubSeq(WorkMessages(tasks[t].pre.display, tasks[t].pre.update,
                                               tasks[t].pre.flash, tasks[t].button,
                                               tasks[t].color), 1, k)
    /\ tasks[t].pc = "work: running" => displayingBuffer # updatingBuffer
    /\ tasks[t].status = "done" =>
         /\ Len(tasks[t].sent) = 5
         /\ displayingBuffer = tasks[t].pre.display
         /\ updatingBuffer = tasks[t].pre.update

\* C20: with every command awaited before the next is issued and every send
\* succeeding, after any sequence of reset, allLEDsOn, setSingleLED (any
\* flags), setMultipleLED (any length 1..80) and switch operations (with or
\* without copy) the two in-memory LED buffers equal the two buffers of the
\* pad, as the messages sent leave them.
C20_BuffersMirrorDevice ==
  (Quiescent /\ Ready) => ledBuffers = device.leds

Block(t) == [k \in DOMAIN tasks[t].sent |-> [task |-> t, msg |-> tasks[t].sent[k]]]

\* the callers whose messages stand on the wire, message by message
WireTasks == [k \in DOMAIN wire |-> wire[k].task]

encode(color) == colorToMIDIVelocity(color, FALSE, FALSE)

\* C23: a setMultipleLED(colors) of n colors that returns has sent, in this
\* order and nothing else, the pair messages [0x92, encode(colors[2j]),
\* encode(colors[2j+1])] for j = 0 .. ceil(n/2) - 1, each carrying the
\* velocities of two consecutive colors given, and then one single-LED
\* message [0x90, 0, encode(colors[0])] for button '00'.
C23_BatchMessages ==
  \A t \in Tasks :
    (tasks[t].op = "setMultipleLED" /\ tasks[t].status = "done") =>
      LET colors == tasks[t].args[1]
          n == Len(colors)
          pairs == (n + 1) \div 2
      IN /\ Len(tasks[t].sent) = pairs + 1
         /\ \A j \in 0..(pairs - 1) :
              /\ 2 * j + 2 <= n
              /\ tasks[t].sent[j + 1] =
                   <<146, encode(colors[2 * j + 1]), encode(colors[2 * j + 2])>>
         /\ tasks[t].sent[pairs + 1] = <<144, 0, encode(colors[1])>>

====
